---------------------------- MODULE Spec2Model ----------------------------
(***************************************************************************)
(* Approximate Convex Decomposition (src/ACD.py) as a state machine.       *)
(*                                                                         *)
(* Points are pairs of integers.  The source computes with binary floats;  *)
(* here every quantity is kept exact:                                      *)
(*   - an angle in degrees is a record [k, v] standing for                 *)
(*     360*k + arg(v), where v is a primitive integer vector and arg(v)    *)
(*     is its arctan2 in (-180, 180]; sums, differences and comparisons    *)
(*     of such angles are exact;                                           *)
(*   - a distance is kept as its square (the root is monotone, so every    *)
(*     comparison and min/max of distances is the one of the squares);     *)
(*   - the score of a diagonal is compared through integer brackets of     *)
(*     the roots it contains.                                              *)
(***************************************************************************)
EXTENDS Integers, Sequences, FiniteSets, TLC

(***************************************************************************)
(* Bounds of the model.                                                    *)
(***************************************************************************)
GridMax == 2      \* coordinates of the enumerated inputs range over 0..GridMax
MaxLen == 5       \* enumerated inputs have at most MaxLen points
MaxTau == 2       \* enumerated tolerances are 1..MaxTau

(***************************************************************************)
(* Plain helpers.                                                          *)
(***************************************************************************)
Abs(n) == IF n < 0 THEN -n ELSE n

Min2(a, b) == IF a < b THEN a ELSE b

Max2(a, b) == IF a < b THEN b ELSE a

RECURSIVE Gcd(_, _)
Gcd(a, b) == IF b = 0 THEN a ELSE Gcd(b, a % b)

Cross(u, v) == u[1] * v[2] - u[2] * v[1]

Dot(u, v) == u[1] * v[1] + u[2] * v[2]

Minus(a, b) == <<a[1] - b[1], a[2] - b[2]>>

\* "x in seq" of Python
InSeq(x, s) == \E i \in 1..Len(s) : s[i] = x

\* seq[i] of Python: zero-based, a negative index counts from the end
PyIndex(s, i) == IF i < 0 THEN s[Len(s) + i + 1] ELSE s[i + 1]

(***************************************************************************)
(* Exact angles: [k |-> n, v |-> <<x, y>>] is 360*n + arg(<<x, y>>).       *)
(***************************************************************************)
Primitive(v) ==
    IF v = <<0, 0>> THEN <<1, 0>>       \* arctan2(0, 0) = 0
    ELSE LET g == Gcd(Abs(v[1]), Abs(v[2])) IN <<v[1] \div g, v[2] \div g>>

\* arg(v) in (0, 180]
Upper(v) == v[2] > 0 \/ (v[2] = 0 /\ v[1] < 0)

\* arg(v) in (-180, 0)
Lower(v) == v[2] < 0

\* position of arg(v) in (-180, 180]: below 0, at 0, between, at 180
ArgRegion(v) ==
    IF v[2] < 0 THEN 0 ELSE IF v[2] > 0 THEN 2 ELSE IF v[1] > 0 THEN 1 ELSE 3

ArgLt(u, v) ==
    \/ ArgRegion(u) < ArgRegion(v)
    \/ ArgRegion(u) = ArgRegion(v) /\ Cross(u, v) > 0

Deg0 == [k |-> 0, v |-> <<1, 0>>]

Deg90 == [k |-> 0, v |-> <<0, 1>>]

Deg180 == [k |-> 0, v |-> <<-1, 0>>]

Deg270 == [k |-> 1, v |-> <<0, -1>>]

Deg360 == [k |-> 1, v |-> <<1, 0>>]

AngLt(a, b) == a.k < b.k \/ (a.k = b.k /\ ArgLt(a.v, b.v))

AngAdd(a, b) ==
    LET prod == <<a.v[1] * b.v[1] - a.v[2] * b.v[2],
                  a.v[1] * b.v[2] + a.v[2] * b.v[1]>>
        carry == IF Upper(a.v) /\ Upper(b.v) /\ ~Upper(prod) THEN 1
                 ELSE IF Lower(a.v) /\ Lower(b.v) /\ ~Lower(prod) THEN -1
                 ELSE 0
    IN  [k |-> a.k + b.k + carry, v |-> Primitive(prod)]

AngNeg(a) ==
    IF a.v = <<-1, 0>> THEN [k |-> -a.k - 1, v |-> a.v]
    ELSE [k |-> -a.k, v |-> <<a.v[1], -a.v[2]>>]

AngSub(a, b) == AngAdd(a, AngNeg(b))

\* np.arctan2(delta_y, delta_x) * 180/np.pi
ArcTan2Deg(delta_y, delta_x) == [k |-> 0, v |-> Primitive(<<delta_x, delta_y>>)]

(***************************************************************************)
(* Geometry primitives of the source.                                      *)
(***************************************************************************)
\* get_dist, squared
GetDistSq(a, b) == (a[1] - b[1]) * (a[1] - b[1]) + (a[2] - b[2]) * (a[2] - b[2])

\* "force rel_angle to be measured as clockwise from East"
ClockwiseFromEast(angle) ==
    IF AngLt(angle, Deg0) THEN AngNeg(angle) ELSE AngSub(Deg360, angle)

\* "force rel_angle to be measured as clockwise from North"
EastToNorth(angle) ==
    IF AngLt(angle, Deg270) THEN AngAdd(angle, Deg90) ELSE AngSub(angle, Deg270)

\* the heading, clockwise from North, of the step from one point to the next
HeadingOf(from_point, to_point) ==
    EastToNorth(ClockwiseFromEast(
        ArcTan2Deg(to_point[2] - from_point[2], to_point[1] - from_point[1])))

\* "if adj_angle < 0: adj_angle += deg_in_circle"
WrapNegative(adj_angle) ==
    IF AngLt(adj_angle, Deg0) THEN AngAdd(adj_angle, Deg360) ELSE adj_angle

GetAdjAngle(heading, previous_point, next_point) ==
    WrapNegative(AngSub(HeadingOf(previous_point, next_point), heading))

GetInteriorAngle(prev_point, r_point, next_point) ==
    AngSub(Deg180, GetAdjAngle(HeadingOf(prev_point, r_point), r_point, next_point))


(***************************************************************************)
(* convex_hull: gift wrapping from the left-most point.                    *)
(***************************************************************************)
\* np.argmin([x for (x,y) in p]): the first index holding the least x
ArgMinX(p) ==
    CHOOSE i \in 1..Len(p) :
        /\ \A j \in 1..Len(p) : p[i][1] <= p[j][1]
        /\ \A j \in 1..(i - 1) : p[j][1] > p[i][1]

Unbound == <<"unbound">>

\* "keep track of best candidate hull point seen so far"
BestCandidate(cur, next_point, new_adj, new_dist) ==
    IF \/ AngLt(new_adj, cur.current_adj)
       \/ (new_adj = cur.current_adj /\ new_dist < cur.current_dist)
    THEN [current_adj |-> new_adj, current_point |-> next_point,
          current_dist |-> new_dist]
    ELSE cur

\* the inner "for next_point in p" of one pass of the while loop, from
\* index i on; cur holds current_adj, current_point and current_dist
RECURSIVE HullScan(_, _, _, _, _)
HullScan(p, i, heading, previous_point, cur) ==
    IF i > Len(p) THEN cur
    ELSE LET next_point == p[i] IN
         IF next_point = previous_point
         THEN HullScan(p, i + 1, heading, previous_point, cur)
         ELSE HullScan(p, i + 1, heading, previous_point,
                       BestCandidate(cur, next_point,
                                     GetAdjAngle(heading, previous_point, next_point),
                                     GetDistSq(previous_point, next_point)))

\* the state of convex_hull before the first pass of its while loop
HullStart(p) ==
    LET left_point == p[ArgMinX(p)] IN
    [hull_list |-> <<left_point>>,
     hull_complete |-> FALSE,
     left_point |-> left_point,
     previous_point |-> left_point,
     heading |-> Deg0,
     current_point |-> Unbound]

\* "assess the hull complete condition" and "add new point to the hull"
HullAdvance(h, cur) ==
    IF cur.current_point = h.left_point
    THEN [h EXCEPT !.hull_complete = TRUE,
                   !.current_point = cur.current_point]
    ELSE [h EXCEPT !.hull_list = Append(h.hull_list, cur.current_point),
                   !.heading = AngAdd(h.heading, cur.current_adj),
                   !.previous_point = cur.current_point,
                   !.current_point = cur.current_point]

\* one pass of "while not(hull_complete)"
HullPass(p, h) ==
    HullAdvance(h, HullScan(p, 1, h.heading, h.previous_point,
                            [current_adj |-> Deg360,
                             current_point |-> h.current_point,
                             current_dist |-> 0]))

\* passes after which the loop is given up as not terminating
HullFuel(p) == 2 * Len(p)

RECURSIVE HullLoop(_, _, _)
HullLoop(p, h, fuel) ==
    IF h.hull_complete THEN h.hull_list
    ELSE IF fuel = 0 THEN <<>>
    ELSE HullLoop(p, HullPass(p, h), fuel - 1)

\* convex_hull(p); <<>> stands for a loop that never ends
ConvexHull(p) == HullLoop(p, HullStart(p), HullFuel(p))

(***************************************************************************)
(* concavity: the score of every point and the notch.                      *)
(***************************************************************************)
EmptyDict == <<>>

\* the "for point in p" that fills point_dict, from index i on; the values
\* are squared distances
RECURSIVE ConcavityScan(_, _, _, _, _, _)
ConcavityScan(p, hull, i, point_dict, left_bridge_index, right_bridge_index) ==
    IF i > Len(p) THEN point_dict
    ELSE LET point == p[i] IN
         IF ~InSeq(point, hull)
         THEN ConcavityScan(p, hull, i + 1,
                  (point :> Min2(GetDistSq(point, PyIndex(hull, left_bridge_index)),
                                 GetDistSq(point, PyIndex(hull, right_bridge_index))))
                      @@ point_dict,
                  left_bridge_index, right_bridge_index)
         ELSE ConcavityScan(p, hull, i + 1, (point :> 0) @@ point_dict,
                  left_bridge_index + 1,
                  IF right_bridge_index + 1 = Len(hull) - 1
                  THEN 0 ELSE right_bridge_index + 1)

\* max(point_dict.values())
MaxValue(point_dict) ==
    CHOOSE m \in {point_dict[q] : q \in DOMAIN point_dict} :
        \A q \in DOMAIN point_dict : point_dict[q] <= m

\* "determine the maximum concavity point (notch) of the polygon": the last
\* point of p that holds the maximum
Notch(p, point_dict, concavity) ==
    p[CHOOSE i \in 1..Len(p) :
          /\ point_dict[p[i]] = concavity
          /\ \A j \in (i + 1)..Len(p) : point_dict[p[j]] # concavity]

NotchAndDict(p, point_dict) ==
    [closed |-> TRUE, notch |-> Notch(p, point_dict, MaxValue(point_dict)),
     point_dict |-> point_dict]

ConcavityOnHull(p, hull) ==
    IF hull = <<>>
    THEN [closed |-> FALSE, notch |-> Unbound, point_dict |-> EmptyDict]
    ELSE NotchAndDict(p, ConcavityScan(p, hull, 1, EmptyDict, -1, 0))

\* concavity(p): closed tells whether convex_hull(p) came back at all
Concavity(p) == ConcavityOnHull(p, ConvexHull(p))

(***************************************************************************)
(* get_resolved_polygons and valid_resolve.                                *)
(***************************************************************************)
\* the last index i with p[i] == x, and p[i] != skipped where an earlier
\* branch of the "if" takes that point, of a "for i in range(len(p))"
\* search (Unbound: no earlier branch)
LastIndex(p, x, skipped) ==
    CHOOSE i \in 1..Len(p) :
        /\ p[i] = x /\ p[i] # skipped
        /\ \A j \in (i + 1)..Len(p) : ~(p[j] = x /\ p[j] # skipped)

\* the "for i in range(len(p))" that deals the points out, from index i on
RECURSIVE DealPoints(_, _, _, _, _, _)
DealPoints(p, i, lo, hi, polygon1, polygon2) ==
    IF i > Len(p) THEN <<polygon1, polygon2>>
    ELSE IF i < lo THEN
        DealPoints(p, i + 1, lo, hi, Append(polygon1, p[i]), polygon2)
    ELSE IF i = lo THEN
        DealPoints(p, i + 1, lo, hi, Append(polygon1, p[i]), Append(polygon2, p[i]))
    ELSE IF i > lo /\ i < hi THEN
        DealPoints(p, i + 1, lo, hi, polygon1, Append(polygon2, p[i]))
    ELSE IF i = hi THEN
        DealPoints(p, i + 1, lo, hi, Append(polygon1, p[i]), Append(polygon2, p[i]))
    ELSE
        DealPoints(p, i + 1, lo, hi, Append(polygon1, p[i]), polygon2)

\* variant of get_resolved_polygons that takes index1 for the lower and
\* index2 for the upper index, without min and max
GetResolvedPolygonsUnordered(p, r, best_point) ==
    DealPoints(p, 1, LastIndex(p, best_point, Unbound), LastIndex(p, r, best_point),
               <<>>, <<>>)

GetResolvedPolygons(p, r, best_point) ==
    LET index1 == LastIndex(p, best_point, Unbound)
        index2 == LastIndex(p, r, best_point)
    IN  DealPoints(p, 1, Min2(index1, index2), Max2(index1, index2), <<>>, <<>>)

\* the interior angle at polygon[index_r], between its pre-notch and
\* post-notch points
AngleAtIndex(polygon, index_r) ==
    GetInteriorAngle(PyIndex(polygon, index_r - 1), PyIndex(polygon, index_r),
                     PyIndex(polygon,
                             IF index_r = Len(polygon) - 1 THEN 0 ELSE index_r + 1))

\* the interior angle valid_resolve measures at notch r inside polygon
NotchAngle(polygon, r) ==
    AngleAtIndex(polygon, LastIndex(polygon, r, Unbound) - 1)

\* variant of valid_resolve without the test on the number of vertices
ValidResolveAnyLength(polygons, r) ==
    \A k \in 1..Len(polygons) : ~AngLt(NotchAngle(polygons[k], r), Deg0)

\* variant of valid_resolve whose test on the number of vertices is "< 2"
ValidResolveTwoPoints(polygons, r) ==
    IF \E k \in 1..Len(polygons) : Len(polygons[k]) < 2 THEN FALSE
    ELSE \A k \in 1..Len(polygons) : ~AngLt(NotchAngle(polygons[k], r), Deg0)

ValidResolve(polygons, r) ==
    IF \E k \in 1..Len(polygons) : Len(polygons[k]) < 3 THEN FALSE
    ELSE \A k \in 1..Len(polygons) : ~AngLt(NotchAngle(polygons[k], r), Deg0)

(***************************************************************************)
(* resolve: the diagonal of highest score that resolves notch r.           *)
(***************************************************************************)
ScTenths == 1     \* Sc = 0.1
Sd == 1           \* Sd = 1.0
RootScale == 1024 \* roots are bracketed to 1/RootScale

\* the largest m in lo..hi with m*m <= n
RECURSIVE RootSearch(_, _, _)
RootSearch(n, lo, hi) ==
    IF lo = hi THEN lo
    ELSE LET mid == (lo + hi + 1) \div 2 IN
         IF mid * mid <= n THEN RootSearch(n, mid, hi)
         ELSE RootSearch(n, lo, mid - 1)

\* floor and ceiling of RootScale * sqrt(n)
RootLo(n) == RootSearch(n * RootScale * RootScale, 0, (n + 1) * RootScale)

RootHi(n) ==
    LET lo == RootLo(n) IN
    IF lo * lo = n * RootScale * RootScale THEN lo ELSE lo + 1

\* score = (1 + Sc*point_dict[point]) / (Sd + get_dist(point, r)), kept as
\* the two squares under its roots; best_score = 0 is ZeroScore
ZeroScore == [zero |-> TRUE]

Score(conc_sq, dist_sq) == [conc_sq |-> conc_sq, dist_sq |-> dist_sq]

\* brackets of 10 * RootScale * numerator and of RootScale * denominator
NumLo(s) == 10 * RootScale + ScTenths * RootLo(s.conc_sq)

NumHi(s) == 10 * RootScale + ScTenths * RootHi(s.conc_sq)

DenLo(s) == Sd * RootScale + RootLo(s.dist_sq)

DenHi(s) == Sd * RootScale + RootHi(s.dist_sq)

\* score > best_score: "gt", "le", or "unknown" when the brackets overlap
ScoreCompare(score, best_score) ==
    IF best_score = ZeroScore THEN "gt"
    ELSE IF score = best_score THEN "le"
    ELSE IF NumLo(score) * DenLo(best_score) > NumHi(best_score) * DenHi(score)
         THEN "gt"
    ELSE IF NumHi(score) * DenHi(best_score) < NumLo(best_score) * DenLo(score)
         THEN "le"
    ELSE "unknown"

None == <<"None">>

\* "determine if notch r has been successfully resolved"
KeepIfValid(r, point, best, score, polygons) ==
    IF ValidResolve(polygons, r)
    THEN [best EXCEPT !.best_polygons = polygons, !.best_score = score,
                      !.best_point = point]
    ELSE best

\* "if score > best_score"
IfScoreGreater(p, r, point, best, score, cmp) ==
    IF cmp = "unknown" THEN [best EXCEPT !.exact = FALSE]
    ELSE IF cmp = "gt"
    THEN KeepIfValid(r, point, best, score, GetResolvedPolygons(p, r, point))
    ELSE best

BestDiagonal(p, r, point, best, score) ==
    IfScoreGreater(p, r, point, best, score, ScoreCompare(score, best.best_score))

\* the "for point in p" of resolve, from index i on
RECURSIVE ResolveScan(_, _, _, _, _)
ResolveScan(p, r, point_dict, i, best) ==
    IF i > Len(p) THEN best
    ELSE LET point == p[i] IN
         IF point = r THEN ResolveScan(p, r, point_dict, i + 1, best)
         ELSE ResolveScan(p, r, point_dict, i + 1,
                  BestDiagonal(p, r, point, best,
                               Score(point_dict[point], GetDistSq(point, r))))

\* resolve(p, r, point_dict): best_polygons is the value returned; exact
\* tells that every score comparison was decided by the brackets
Resolve(p, r, point_dict) ==
    ResolveScan(p, r, point_dict, 1,
                [best_score |-> ZeroScore, best_point |-> None,
                 best_polygons |-> None, exact |-> TRUE])

(***************************************************************************)
(* The inputs.                                                             *)
(***************************************************************************)
GridPoints == (0..GridMax) \X (0..GridMax)

\* every sequence of n distinct grid points
PointSeqs(n) ==
    {s \in [1..n -> GridPoints] : \A i, j \in 1..n : i # j => s[i] # s[j]}

\* twice the signed area (shoelace): negative for a clockwise polygon
Area2(p) ==
    LET n == Len(p)
        Term(i) == Cross(p[i], p[(i % n) + 1])
        RECURSIVE Sum(_)
        Sum(i) == IF i = 0 THEN 0 ELSE Term(i) + Sum(i - 1)
    IN  Sum(n)

Sign(n) == IF n > 0 THEN 1 ELSE IF n < 0 THEN -1 ELSE 0

Orient(a, b, c) == Sign(Cross(Minus(b, a), Minus(c, a)))

InBox(a, b, c) ==
    /\ Min2(a[1], b[1]) <= c[1] /\ c[1] <= Max2(a[1], b[1])
    /\ Min2(a[2], b[2]) <= c[2] /\ c[2] <= Max2(a[2], b[2])

\* the closed segments ab and cd share a point
SegmentsMeet(a, b, c, d) ==
    \/ Orient(a, b, c) # Orient(a, b, d) /\ Orient(c, d, a) # Orient(c, d, b)
    \/ Orient(a, b, c) = 0 /\ InBox(a, b, c)
    \/ Orient(a, b, d) = 0 /\ InBox(a, b, d)
    \/ Orient(c, d, a) = 0 /\ InBox(c, d, a)
    \/ Orient(c, d, b) = 0 /\ InBox(c, d, b)

\* p is a simple polygon: distinct points, non-zero area, edges that meet
\* only at the shared end point of consecutive edges
IsSimple(p) ==
    LET n == Len(p)
        Nxt(i) == (i % n) + 1
    IN  /\ n >= 3
        /\ \A i, j \in 1..n : i # j => p[i] # p[j]
        /\ Area2(p) # 0
        /\ \A i \in 1..n : \A j \in (i + 1)..n :
              IF Nxt(i) = j
              THEN ~(/\ Cross(Minus(p[i], p[j]), Minus(p[Nxt(j)], p[j])) = 0
                     /\ Dot(Minus(p[i], p[j]), Minus(p[Nxt(j)], p[j])) > 0)
              ELSE IF Nxt(j) = i
              THEN ~(/\ Cross(Minus(p[Nxt(i)], p[i]), Minus(p[j], p[i])) = 0
                     /\ Dot(Minus(p[Nxt(i)], p[i]), Minus(p[j], p[i])) > 0)
              ELSE ~SegmentsMeet(p[i], p[Nxt(i)], p[j], p[Nxt(j)])

IsClockwise(p) == Area2(p) < 0

\* the scenario polygons of the specification and polygons with deeper splits
Scenario1 == << <<0, 0>>, <<4, 0>>, <<4, 4>>, <<2, 1>>, <<0, 4>> >>

Square4 == << <<0, 0>>, <<4, 0>>, <<4, 4>>, <<0, 4>> >>

Staircase == << <<0, 0>>, <<0, 2>>, <<1, 1>>, <<2, 1>>, <<3, 1>> >>

Fan == << <<0, 0>>, <<0, 1>>, <<3, 2>>, <<2, 0>>, <<2, 1>>, <<1, 1>> >>

Hooked == << <<3, 3>>, <<4, 0>>, <<3, 2>>, <<0, 1>>, <<0, 4>>, <<2, 2>> >>

Barbed == << <<3, 1>>, <<1, 3>>, <<0, 0>>, <<1, 1>>, <<1, 2>> >>

Reverse(p) == [i \in 1..Len(p) |-> p[Len(p) + 1 - i]]

NamedInputs ==
    {[p |-> Scenario1, tau |-> 3], [p |-> Reverse(Scenario1), tau |-> 3]}
    \cup {[p |-> q, tau |-> t] :
            q \in {Square4, Reverse(Square4), Staircase, Fan, Hooked, Barbed},
            t \in 1..MaxTau}

GridInputs ==
    {[p |-> q, tau |-> t] :
        q \in UNION {{s \in PointSeqs(n) : n = 2 \/ IsSimple(s)} : n \in 2..MaxLen},
        t \in 1..MaxTau}

Inputs == GridInputs \cup NamedInputs

(***************************************************************************)
(* The state.                                                              *)
(*   p0, tau   the arguments of the top-level call ACD(p0, tau)            *)
(*   stack     the activations of ACD, the innermost last; each holds its  *)
(*             p, its place (pc), and its polygons, loop index and         *)
(*             polygon_list                                                *)
(*   outcome   "running", "returned" or the exception that ended the call  *)
(*   result    the list the top-level call returned (<<>> before that)     *)
(*   hp, hull, hret   a call convex_hull(hp) taken pass by pass: the       *)
(*             locals of the loop and the value returned (<<>> before)     *)
(*   fp, fconc, fsplit   a polygon and what concavity(fp), or               *)
(*             get_resolved_polygons and valid_resolve on two of its       *)
(*             points, returned (NoValue before the call)                  *)
(***************************************************************************)
VARIABLES p0, tau, stack, outcome, result, hp, hull, hret, fp, fconc, fsplit

vars == <<p0, tau, stack, outcome, result, hp, hull, hret, fp, fconc, fsplit>>

acdVars == <<p0, tau, stack, outcome, result>>

hullVars == <<hp, hull, hret>>

fnVars == <<fp, fconc, fsplit>>

NoValue == [none |-> TRUE]

NoHull == [none |-> TRUE]

Frame(p) ==
    [p |-> p, pc |-> "start", polygons |-> None, i |-> 1, polygon_list |-> <<>>]

Top == stack[Len(stack)]

\* variants of the tolerance test: "c <= tau" and "c > tau"
BelowToleranceInclusive(conc_sq) == conc_sq <= tau * tau

BelowToleranceInverted(conc_sq) == conc_sq > tau * tau

\* c < tau, on the squares
BelowTolerance(conc_sq) == conc_sq < tau * tau

\* variant of the iteration in which None counts as an empty list
ForItemsLenient(polygons) == IF polygons = None THEN <<>> ELSE polygons

\* "for polygon in polygons": the items iterated, or the exception raised
ForItems(polygons) == IF polygons = None THEN "TypeError" ELSE polygons

Init ==
    /\ \E inp \in Inputs : p0 = inp.p /\ tau = inp.tau
    /\ stack = <<Frame(p0)>>
    /\ outcome = "running"
    /\ result = <<>>
    /\ hp = <<>>
    /\ hull = NoHull
    /\ hret = <<>>
    /\ fp = <<>>
    /\ fconc = NoValue
    /\ fsplit = NoValue

\* "return value" of the innermost activation: to the caller's
\* "polygon_list.extend(new_polygons)", or out of the top-level call
Return(value) ==
    IF Len(stack) = 1
    THEN /\ stack' = <<>>
         /\ outcome' = "returned"
         /\ result' = value
    ELSE LET caller == stack[Len(stack) - 1] IN
         /\ stack' = [SubSeq(stack, 1, Len(stack) - 1) EXCEPT ![Len(stack) - 1] =
                         [caller EXCEPT !.polygon_list = caller.polygon_list \o value,
                                        !.i = caller.i + 1]]
         /\ UNCHANGED <<outcome, result>>

\* "if c < tau" on the value concavity(p) returned
Satisfied(c) == c.closed /\ BelowTolerance(c.point_dict[c.notch])

Unsatisfied(c) == c.closed /\ ~BelowTolerance(c.point_dict[c.notch])

\* lines 16-21: the tolerance is already satisfied
ACDTerminal ==
    /\ stack # <<>>
    /\ Top.pc = "start"
    /\ Satisfied(Concavity(Top.p))
    /\ Return(<<Top.p>>)
    /\ UNCHANGED <<p0, tau, hullVars, fnVars>>

\* "polygons = resolve(p, r, point_dict)" and "polygon_list = []"
Resolved(res) ==
    /\ res.exact
    /\ stack' = [stack EXCEPT ![Len(stack)] =
                    [Top EXCEPT !.pc = "loop",
                                !.polygons = res.best_polygons,
                                !.polygon_list = <<>>]]

ResolveNotch(c) ==
    /\ Unsatisfied(c)
    /\ Resolved(Resolve(Top.p, c.notch, c.point_dict))

\* lines 16-27: the notch is resolved (or resolve returns None)
ACDResolve ==
    /\ stack # <<>>
    /\ Top.pc = "start"
    /\ ResolveNotch(Concavity(Top.p))
    /\ UNCHANGED <<p0, tau, outcome, result, hullVars, fnVars>>

\* line 28 on None: the exception leaves every activation
ACDRaise ==
    /\ stack # <<>>
    /\ Top.pc = "loop"
    /\ ForItems(Top.polygons) = "TypeError"
    /\ stack' = <<>>
    /\ outcome' = "TypeError"
    /\ UNCHANGED <<p0, tau, result, hullVars, fnVars>>

\* lines 28-29: the recursive call on the next polygon
ACDCall ==
    /\ stack # <<>>
    /\ Top.pc = "loop"
    /\ ForItems(Top.polygons) # "TypeError"
    /\ Top.i <= Len(ForItems(Top.polygons))
    /\ stack' = Append(stack, Frame(ForItems(Top.polygons)[Top.i]))
    /\ UNCHANGED <<p0, tau, outcome, result, hullVars, fnVars>>

\* line 32: the loop is over
ACDReturn ==
    /\ stack # <<>>
    /\ Top.pc = "loop"
    /\ ForItems(Top.polygons) # "TypeError"
    /\ Top.i > Len(ForItems(Top.polygons))
    /\ Return(Top.polygon_list)
    /\ UNCHANGED <<p0, tau, hullVars, fnVars>>

Next == ACDTerminal \/ ACDResolve \/ ACDRaise \/ ACDCall \/ ACDReturn

Spec == Init /\ [][Next]_vars

(***************************************************************************)
(* convex_hull(hp) pass by pass.                                           *)
(***************************************************************************)
HullInputs ==
    UNION {PointSeqs(n) : n \in 2..MaxLen}
    \cup {Scenario1, Reverse(Scenario1), Square4, Staircase, Fan, Hooked}

HullInit ==
    /\ hp \in HullInputs
    /\ hull = HullStart(hp)
    /\ hret = <<>>
    /\ p0 = <<>>
    /\ tau = 1
    /\ stack = <<>>
    /\ outcome = "running"
    /\ result = <<>>
    /\ fp = <<>>
    /\ fconc = NoValue
    /\ fsplit = NoValue

\* lines 172-198: one pass of the while loop
HullStep ==
    /\ hull # NoHull
    /\ hret = <<>>
    /\ ~hull.hull_complete
    /\ Len(hull.hull_list) <= HullFuel(hp)
    /\ hull' = HullPass(hp, hull)
    /\ UNCHANGED <<hp, hret, acdVars, fnVars>>

\* line 200: return(hull_list)
HullReturn ==
    /\ hull # NoHull
    /\ hret = <<>>
    /\ hull.hull_complete
    /\ hret' = hull.hull_list
    /\ UNCHANGED <<hp, hull, acdVars, fnVars>>

HullNext == HullStep \/ HullReturn

HullSpec == HullInit /\ [][HullNext]_vars

(***************************************************************************)
(* concavity, get_resolved_polygons and valid_resolve applied to a polygon *)
(* and two of its points.                                                  *)
(***************************************************************************)
NamedPolygons ==
    {Scenario1, Reverse(Scenario1), Square4, Reverse(Square4), Staircase, Fan,
     Hooked, Barbed}

FnInputs ==
    UNION {{s \in PointSeqs(n) : IsSimple(s)} : n \in 3..MaxLen} \cup NamedPolygons

FnInit ==
    /\ fp \in FnInputs
    /\ fconc = NoValue
    /\ fsplit = NoValue
    /\ p0 = <<>>
    /\ tau = 1
    /\ stack = <<>>
    /\ outcome = "running"
    /\ result = <<>>
    /\ hp = <<>>
    /\ hull = NoHull
    /\ hret = <<>>

\* r, point_dict = concavity(fp)
ApplyConcavity ==
    /\ fconc = NoValue
    /\ fsplit = NoValue
    /\ fconc' = Concavity(fp)
    /\ UNCHANGED <<fp, fsplit, acdVars, hullVars>>

SplitAndCheck(r, best_point, polygons) ==
    [r |-> r, best_point |-> best_point, polygons |-> polygons,
     valid |-> ValidResolve(polygons, r)]

\* polygons = get_resolved_polygons(fp, r, point); valid_resolve(polygons, r)
ApplySplit ==
    /\ fconc = NoValue
    /\ fsplit = NoValue
    /\ \E i, j \in 1..Len(fp) :
          /\ i # j
          /\ fsplit' = SplitAndCheck(fp[i], fp[j],
                                     GetResolvedPolygons(fp, fp[i], fp[j]))
    /\ UNCHANGED <<fp, fconc, acdVars, hullVars>>

FnNext == ApplyConcavity \/ ApplySplit

FnSpec == FnInit /\ [][FnNext]_vars

(***************************************************************************)
(* Properties.                                                             *)
(***************************************************************************)
\* the square of the maximum concavity that concavity(q) computes
MaxConcavitySq(q) == Concavity(q).point_dict[Concavity(q).notch]

ListsOf(st) == {st[k].polygon_list : k \in 1..Len(st)}

ElementsOf(list) == {list[m] : m \in 1..Len(list)}

\* the polygons emitted so far: in the returned list and in the lists that
\* the activations are still extending
Emitted == UNION {ElementsOf(l) : l \in ListsOf(stack) \cup {result}}

\* the polygons made by a split and up for a recursive call
SplitPolygons ==
    UNION {ElementsOf(stack[k].polygons) :
              k \in {j \in 1..Len(stack) : stack[j].pc = "loop"
                                           /\ stack[j].polygons # None}}

\* C1: for an input of at least 3 vertices, every polygon of the returned
\* list (and of every list being built for it) has a maximum concavity, as
\* concavity computes it, strictly below tau
C1_ToleranceSatisfied ==
    Len(p0) >= 3 => \A q \in Emitted : MaxConcavitySq(q) < tau * tau

\* a decomposition into several polygons was returned
C1_Witness == Len(p0) >= 3 /\ outcome = "returned" /\ Len(result) >= 2

\* C2: for an input of at least 3 vertices, every polygon made by a split,
\* every polygon given to a call and every polygon emitted has at least 3
\* vertices
C2_MinimumVertices ==
    Len(p0) >= 3 =>
        /\ \A q \in SplitPolygons \cup Emitted : Len(q) >= 3
        /\ \A k \in 1..Len(stack) : Len(stack[k].p) >= 3

\* a split is in place whose smaller part is a triangle
C2_Witness ==
    /\ Len(p0) >= 3
    /\ SplitPolygons # {}
    /\ \E q \in SplitPolygons : Len(q) = 3

\* the turn of the boundary of p at its vertex i: 1 left, -1 right, 0 none
TurnAt(p, i) ==
    Orient(p[((i + Len(p) - 2) % Len(p)) + 1], p[i], p[(i % Len(p)) + 1])

\* p is a convex polygon every vertex of which is a vertex of its convex
\* hull: simple, and turning the same way, and never straight, at each vertex
StrictlyConvex(p) ==
    /\ IsSimple(p)
    /\ \/ \A i \in 1..Len(p) : TurnAt(p, i) = 1
       \/ \A i \in 1..Len(p) : TurnAt(p, i) = -1

\* C3: on a convex polygon p0, in either traversal direction and from any
\* starting vertex, ACD makes no split and raises nothing: it is in its
\* first activation with the tolerance test about to succeed, or has
\* returned exactly [p0]
C3_ConvexIdempotent ==
    (Len(p0) >= 3 /\ StrictlyConvex(p0)) =>
        /\ outcome \in {"running", "returned"}
        /\ outcome = "running" =>
              /\ stack = <<Frame(p0)>>
              /\ MaxConcavitySq(p0) = 0
              /\ Satisfied(Concavity(p0))
        /\ outcome = "returned" => stack = <<>> /\ result = <<p0>>

\* a convex pentagon, traversed counter-clockwise, was returned as it was
C3_Witness ==
    /\ Len(p0) = 5
    /\ StrictlyConvex(p0)
    /\ ~IsClockwise(p0)
    /\ outcome = "returned"
    /\ result = <<p0>>

\* the square of scenario 2, in either direction, was returned as it was
C3_SquareReturned ==
    /\ p0 \in {Square4, Reverse(Square4)}
    /\ outcome = "returned"
    /\ result = <<p0>>

\* the place of point r in polygon q
IndexOf(q, r) == CHOOSE i \in 1..Len(q) : q[i] = r

\* the interior angle of polygon q at its vertex r is greater than 180
\* degrees: the boundary turns at r against the orientation of q
ReflexAt(q, r) == Sign(Area2(q)) * TurnAt(q, IndexOf(q, r)) < 0

\* C4: ACD(Scenario1, 3) returns exactly 2 polygons, both with the notch
\* (2,1) and the other end of the chosen diagonal, neither reflex at (2,1)
C4_Scenario1Split ==
    (p0 = Scenario1 /\ tau = 3 /\ outcome # "running") =>
        /\ outcome = "returned"
        /\ Len(result) = 2
        /\ \A m \in 1..2 : InSeq(<<2, 1>>, result[m])
        /\ \E c \in ElementsOf(Scenario1) \ {<<2, 1>>} :
              \A m \in 1..2 : InSeq(c, result[m])
        /\ \A m \in 1..2 : ~ReflexAt(result[m], <<2, 1>>)

\* what ACD(Scenario1, 3) does return: Scenario1 itself, alone
C4_Scenario1Unsplit ==
    p0 = Scenario1 /\ tau = 3 /\ outcome = "returned" /\ result = <<Scenario1>>

\* C5: a call on exactly 2 points ends in InvalidPolygonError and never
\* returns a list
C5_TwoPointsRejected ==
    (Len(p0) = 2 /\ outcome # "running") => outcome = "InvalidPolygonError"

\* the 2 points come back as a polygon of the returned list
C5_TwoPointsReturned ==
    Len(p0) = 2 /\ outcome = "returned" /\ result = <<p0>>

\* resolve has returned None to the innermost activation
ResolveFailed == stack # <<>> /\ Top.pc = "loop" /\ Top.polygons = None

\* the first split of p0 is a valid one
FirstSplitValid ==
    Resolve(p0, Concavity(p0).notch, Concavity(p0).point_dict).best_polygons # None

\* C6: when resolve returns None, at any depth, nothing has been returned,
\* the next step of the call raises out of every activation with no list
\* returned, and the error outcome is final; only the innermost activation
\* can hold a None, so no activation goes on past one
C6_FailureIsFatal ==
    /\ [](ResolveFailed => outcome = "running" /\ result = <<>>)
    /\ [](\A k \in 1..(Len(stack) - 1) : stack[k].polygons # None)
    /\ [][ResolveFailed =>
            outcome' = "TypeError" /\ stack' = <<>> /\ result' = <<>>]_vars
    /\ [](outcome = "TypeError" => stack = <<>> /\ result = <<>>)
    /\ [][outcome # "TypeError"]_vars

\* resolve has returned None to the second activation while the first one
\* holds the polygons returned to it so far
C6_PartialListAtFailure ==
    Len(stack) = 2 /\ ResolveFailed /\ stack[1].polygon_list # <<>>

\* the call has failed below its first activation: the first split was
\* valid, and a later resolve returned None
C6_Witness ==
    /\ Len(p0) >= 3
    /\ outcome = "TypeError"
    /\ result = <<>>
    /\ FirstSplitValid

\* the sum of the doubled areas of the polygons of a list
RECURSIVE SumArea2(_)
SumArea2(list) ==
    IF list = <<>> THEN 0 ELSE Abs(Area2(Head(list))) + SumArea2(Tail(list))

\* C7: when ACD returns on a simple polygon of at least 3 vertices, the
\* areas of the returned polygons add up to the area of the input
C7_AreaConserved ==
    (Len(p0) >= 3 /\ IsSimple(p0) /\ outcome = "returned") =>
        SumArea2(result) = Abs(Area2(p0))

\* a returned decomposition of a simple polygon that covers more area than
\* the polygon has
C7_AreaGained ==
    /\ Len(p0) >= 3
    /\ IsSimple(p0)
    /\ outcome = "returned"
    /\ SumArea2(result) > Abs(Area2(p0))

\* every point of p lies on one line
Collinear(p) == \A i \in 1..Len(p) : Orient(p[1], p[2], p[i]) = 0

\* C8: on 3 or more points that are all collinear convex_hull returns no
\* hull (the degenerate input is detected and surfaced as an error)
C8_DegenerateHullDetected ==
    (Len(hp) >= 3 /\ Collinear(hp)) => hret = <<>>

\* convex_hull has returned a hull for collinear points, one of them twice
C8_CollinearHullReturned ==
    /\ Len(hp) >= 3
    /\ Collinear(hp)
    /\ hret # <<>>
    /\ \E i, j \in 1..Len(hret) : i # j /\ hret[i] = hret[j]

\* the while loop of convex_hull closes on every input: the hull never
\* grows past one point more than the input has, and a pass is possible or
\* the hull is complete
C8_LoopCloses ==
    hull # NoHull =>
        /\ Len(hull.hull_list) <= Len(hp) + 1
        /\ ~Collinear(hp) => Len(hull.hull_list) <= Len(hp)
        /\ hull.hull_complete => hull.current_point = hull.left_point

\* the parts of the split taken last
Parts == {fsplit.polygons[k] : k \in 1..Len(fsplit.polygons)}

\* r is a notch of polygon p: a vertex with a reflex interior angle, which
\* concavity scores above 0
IsNotchOf(p, r) == ReflexAt(p, r) /\ Concavity(p).point_dict[r] > 0

\* a split was taken at a notch of fp, and each part that is a polygon is a
\* simple one, so that its interior angle at r is defined
SplitAtNotch ==
    /\ fsplit # NoValue
    /\ IsNotchOf(fp, fsplit.r)
    /\ \A q \in Parts : Len(q) >= 3 => IsSimple(q)

\* C9: for a split of a simple polygon at a notch r, valid_resolve returns
\* False exactly when a part has fewer than 3 vertices or the interior angle
\* at r inside a part is greater than 180 degrees
C9_ValidIffNotReflex ==
    SplitAtNotch =>
        (fsplit.valid = FALSE <=>
            \/ \E q \in Parts : Len(q) < 3
            \/ \E q \in Parts : ReflexAt(q, fsplit.r))

\* a split of a counter-clockwise polygon at a notch into two simple
\* counter-clockwise polygons, both convex at r, that valid_resolve rejects
C9_ConvexSplitRejected ==
    /\ SplitAtNotch
    /\ Area2(fp) > 0
    /\ \A q \in Parts : Len(q) >= 3 /\ Area2(q) > 0
    /\ \A q \in Parts : TurnAt(q, IndexOf(q, fsplit.r)) = 1
    /\ fsplit.valid = FALSE

\* what valid_resolve does test: it returns False exactly when a part has
\* fewer than 3 vertices or the boundary of a part turns left at r, which is
\* a reflex angle only in a part that is traversed clockwise
C9_RejectsLeftTurns ==
    fsplit # NoValue =>
        (fsplit.valid = FALSE <=>
            \/ \E q \in Parts : Len(q) < 3
            \/ \E q \in Parts : TurnAt(q, IndexOf(q, fsplit.r)) = 1)

\* the vertex of p that is d places behind, or ahead of, its vertex i along
\* the closed boundary
Back(p, i, d) == ((i - 1 - d + Len(p)) % Len(p)) + 1

Forth(p, i, d) == ((i - 1 + d) % Len(p)) + 1

\* the hull_list vertex passed last before vertex i, and the next one to come
LeftBridge(p, hull_list, i) ==
    p[Back(p, i, CHOOSE d \in 1..Len(p) :
                    /\ InSeq(p[Back(p, i, d)], hull_list)
                    /\ \A e \in 1..(d - 1) : ~InSeq(p[Back(p, i, e)], hull_list))]

RightBridge(p, hull_list, i) ==
    p[Forth(p, i, CHOOSE d \in 1..Len(p) :
                     /\ InSeq(p[Forth(p, i, d)], hull_list)
                     /\ \A e \in 1..(d - 1) : ~InSeq(p[Forth(p, i, e)], hull_list))]

\* the square of the score of vertex i of p by its bracketing bridges
BracketScoreSq(p, hull_list, i) ==
    IF InSeq(p[i], hull_list) THEN 0
    ELSE Min2(GetDistSq(p[i], LeftBridge(p, hull_list, i)),
              GetDistSq(p[i], RightBridge(p, hull_list, i)))

\* C10: concavity gives every hull vertex the score 0 and every other
\* vertex the smaller of its distances to the two hull vertices that
\* bracket it along the boundary, from any starting vertex and in either
\* direction
C10_BracketingBridges ==
    fconc # NoValue =>
        \A i \in 1..Len(fp) :
            fconc.point_dict[fp[i]] = BracketScoreSq(fp, ConvexHull(fp), i)

\* the notch (2,1) of Scenario1 is scored by its distance to (0,0), the
\* square of which is 5, where its bridges (4,4) and (0,4) are both at a
\* distance the square of which is 13
C10_WrongBridge ==
    /\ fp = Scenario1
    /\ fconc # NoValue
    /\ LeftBridge(fp, ConvexHull(fp), 4) = <<4, 4>>
    /\ RightBridge(fp, ConvexHull(fp), 4) = <<0, 4>>
    /\ BracketScoreSq(fp, ConvexHull(fp), 4) = 13
    /\ fconc.point_dict[<<2, 1>>] = 5

\* q lies on the line through a and b, strictly between them
StrictlyBetween(a, b, q) ==
    /\ Orient(a, b, q) = 0
    /\ Dot(Minus(q, a), Minus(b, a)) > 0
    /\ Dot(Minus(q, b), Minus(a, b)) > 0

\* the points of the input of convex_hull
HullPoints == {hp[i] : i \in 1..Len(hp)}

\* a and b are on an edge of the convex hull of the input: no point of the
\* input is on both sides of the line through them
OnHullEdge(a, b) ==
    \/ \A q \in HullPoints : Orient(a, b, q) >= 0
    \/ \A q \in HullPoints : Orient(a, b, q) <= 0

\* C11: among candidates of equal adjustment angle convex_hull selects the
\* farthest, so no point of the input lies beyond a selected point as seen
\* from the hull point before it, and no vertex strictly between two
\* points of a hull edge is in the returned hull list (on inputs of 3 or
\* more points that are not all collinear)
C11_FartherPointPreferred ==
    (Len(hp) >= 3 /\ ~Collinear(hp) /\ hull # NoHull) =>
        /\ \A k \in 1..(Len(hull.hull_list) - 1) : \A q \in HullPoints :
              ~StrictlyBetween(hull.hull_list[k], q, hull.hull_list[k + 1])
        /\ \A k \in 1..Len(hret) : \A a, b \in HullPoints :
              ~(OnHullEdge(a, b) /\ StrictlyBetween(a, b, hret[k]))

\* convex_hull has returned, for the square with the middle of its left
\* side as a vertex, a hull list with that middle point in it
C11_MidEdgeVertexInHull ==
    /\ hp = << <<0, 0>>, <<0, 1>>, <<0, 2>>, <<2, 2>>, <<2, 0>> >>
    /\ hret = hp
    /\ OnHullEdge(<<0, 0>>, <<0, 2>>)
    /\ StrictlyBetween(<<0, 0>>, <<0, 2>>, <<0, 1>>)

\* what the code selects among candidates of equal adjustment angle: the
\* nearest, so no point of the input lies strictly between two successive
\* points of the hull list
C11_NearerPointSelected ==
    (Len(hp) >= 3 /\ ~Collinear(hp) /\ hull # NoHull) =>
        \A k \in 1..(Len(hull.hull_list) - 1) : \A q \in HullPoints :
            ~StrictlyBetween(hull.hull_list[k], hull.hull_list[k + 1], q)

\* the number of places of polygon q that hold point x
Count(q, x) == Cardinality({k \in 1..Len(q) : q[k] = x})

\* the lower and the upper of the indices in fp of the two ends of the
\* diagonal taken last
SplitLo == Min2(IndexOf(fp, fsplit.r), IndexOf(fp, fsplit.best_point))

SplitHi == Max2(IndexOf(fp, fsplit.r), IndexOf(fp, fsplit.best_point))

\* C12: get_resolved_polygons(p, r, c), with r and c at the indices i < j
\* in either role, returns p[0..i] followed by p[j..n-1] as polygon1 and
\* p[i..j] as polygon2; r and c are once in each, every other vertex of p
\* is in exactly one, the lengths add up to n + 2, and p is not modified
C12_SplitProcedure ==
    /\ [](fsplit # NoValue =>
            /\ Len(fsplit.polygons) = 2
            /\ fsplit.polygons[1] =
                  SubSeq(fp, 1, SplitLo) \o SubSeq(fp, SplitHi, Len(fp))
            /\ fsplit.polygons[2] = SubSeq(fp, SplitLo, SplitHi)
            /\ \A m \in 1..2 :
                  /\ Count(fsplit.polygons[m], fsplit.r) = 1
                  /\ Count(fsplit.polygons[m], fsplit.best_point) = 1
            /\ \A k \in 1..Len(fp) :
                  fp[k] \notin {fsplit.r, fsplit.best_point} =>
                      Count(fsplit.polygons[1], fp[k])
                          + Count(fsplit.polygons[2], fp[k]) = 1
            /\ Len(fsplit.polygons[1]) + Len(fsplit.polygons[2]) = Len(fp) + 2)
    /\ [][fp' = fp]_vars

\* a split of a pentagon with the notch r after the other end c of the
\* diagonal, both away from the ends of the list
C12_Witness ==
    /\ fsplit # NoValue
    /\ Len(fp) = 5
    /\ IndexOf(fp, fsplit.r) = 4
    /\ IndexOf(fp, fsplit.best_point) = 2
    /\ Len(fsplit.polygons[1]) = 4
    /\ Len(fsplit.polygons[2]) = 3

\* the activations that hold the two polygons of an accepted split
SplitFrames ==
    {k \in 1..Len(stack) : stack[k].pc = "loop" /\ stack[k].polygons # None}

\* "if c >= tau" on the value concavity returned, with a decided resolve
ResolveCanStep(c) ==
    Unsatisfied(c) /\ Resolve(Top.p, c.notch, c.point_dict).exact

\* a bound on the steps of a call of ACD on a polygon of n >= 3 vertices:
\* 2 for a triangle, and 4 more than its two parts for a polygon split
StepBound(n) == 6 * n - 16

\* the steps left for the polygons of list from index i on: a call and the
\* steps of the call, each
RECURSIVE CallsLeft(_, _)
CallsLeft(list, i) ==
    IF i > Len(list) THEN 0
    ELSE 1 + StepBound(Len(list[i])) + CallsLeft(list, i + 1)

\* the steps left for activation k: all of them before its first step, one
\* raise on None, else the calls to come and the return
StepsLeft(k) ==
    IF stack[k].pc = "start" THEN StepBound(Len(stack[k].p))
    ELSE IF stack[k].polygons = None THEN 1
    ELSE 1 + CallsLeft(stack[k].polygons,
                       IF k = Len(stack) THEN stack[k].i ELSE stack[k].i + 1)

RECURSIVE SumStepsLeft(_)
SumStepsLeft(k) == IF k = 0 THEN 0 ELSE StepsLeft(k) + SumStepsLeft(k - 1)

\* the variant of the recursion: a bound on the steps the call has left
Variant == SumStepsLeft(Len(stack))

\* the innermost activation has a next step: its hull construction came
\* back and the comparison of the scores was decided, or it is in its loop
CanStep ==
    /\ stack # <<>>
    /\ \/ Top.pc = "start" /\ Satisfied(Concavity(Top.p))
       \/ Top.pc = "start" /\ ResolveCanStep(Concavity(Top.p))
       \/ Top.pc = "loop"

\* C13: on an input of n >= 3 vertices, the two polygons of every accepted
\* split have at least 3 vertices and fewer than the polygon split, every
\* activation has fewer vertices than its caller, and the depth of the
\* recursion is at most n - 3; the call ends, in a returned list or in an
\* error: every step lowers a bound on the steps left that is never
\* negative, and a call that has not ended always has a next step
C13_RecursionTerminates ==
    /\ [](Len(p0) >= 3 =>
            /\ \A k \in SplitFrames : \A q \in ElementsOf(stack[k].polygons) :
                  3 <= Len(q) /\ Len(q) <= Len(stack[k].p) - 1
            /\ \A k \in 2..Len(stack) : Len(stack[k].p) < Len(stack[k - 1].p)
            /\ stack # <<>> => Len(stack) - 1 <= Len(p0) - 3
            /\ Variant >= 0
            /\ outcome = "running" => CanStep
            /\ outcome # "running" => stack = <<>> /\ Variant = 0)
    /\ [][Len(p0) >= 3 => Variant' < Variant]_vars

\* a hexagon in the deepest recursion it allows: the third nested call,
\* on a triangle
C13_Witness ==
    /\ Len(p0) = 6
    /\ Len(stack) = 4
    /\ Len(Top.p) = 3

=============================================================================
